---- MODULE Spec2Model ----
(***************************************************************************)
(* Equipment checkout system: the sqlite-backed store (database.py) and    *)
(* the report / CLI layer on top of it (equipment_management.py).          *)
(*                                                                         *)
(* Text (names, skill lists, file lines) is a sequence of one-character    *)
(* strings, so that str.split / str.strip / str.join are computed          *)
(* character by character as Python computes them.                         *)
(***************************************************************************)
EXTENDS Integers, Sequences, FiniteSets, TLC

VARIABLES
    employees,    \* rows of table employees: [id, name, skill_set]
    equipment,    \* rows of table equipment: [id, name, required_skills, status]
    checkouts,    \* rows of table checkouts: [id, employee_id, equipment_id]
    last,         \* the most recent call and what it returned
    lifecycle,    \* history: per equipment id, its most recent successful checkout/return
    holder,       \* history: per equipment id, the employee of its most recent successful checkout
    observers,    \* NotificationSystem.observers: the subscribed observers' names, in order
    alerts,       \* the observers the most recent call printed an alert line for, in order
    session,      \* per concurrent session: where its check_out_equipment call stands
    lock          \* the session holding the database file's write lock, 0 for none

vars == <<employees, equipment, checkouts, last, lifecycle, holder,
          observers, alerts, session, lock>>

----------------------------------------------------------------------------
(* Bounds of the model *)

MaxCheckouts == 3          \* rows the checkouts table may hold

MaxObservers == 1          \* observers subscribed at most
Sessions == {1, 2}         \* concurrent sessions, each with its own connection

EmployeeIds == {1, 2}      \* employee ids passed by callers
EquipmentIds == {1, 2}     \* equipment ids passed by callers

----------------------------------------------------------------------------
(* Text *)

Sep == <<",", " ">>                      \* the delimiter ", "

Whitespace == {" ", "\n"}

Digits == {"0", "1", "2", "3", "4", "5", "6", "7", "8", "9"}

StartsWith(s, p) ==
    /\ Len(s) >= Len(p)
    /\ SubSeq(s, 1, Len(p)) = p

Drop(s, n) == SubSeq(s, n + 1, Len(s))

(* str.split(sep): the pieces between non-overlapping occurrences of sep,
   scanning left to right; "".split(sep) is [""] *)
RECURSIVE SplitAcc(_, _, _)
SplitAcc(s, sep, cur) ==
    IF s = <<>> THEN <<cur>>
    ELSE IF StartsWith(s, sep) THEN <<cur>> \o SplitAcc(Drop(s, Len(sep)), sep, <<>>)
    ELSE SplitAcc(Tail(s), sep, Append(cur, Head(s)))

Split(s, sep) == SplitAcc(s, sep, <<>>)

(* sep.join(parts) *)
RECURSIVE Join(_, _)
Join(parts, sep) ==
    IF parts = <<>> THEN <<>>
    ELSE IF Len(parts) = 1 THEN parts[1]
    ELSE parts[1] \o sep \o Join(Tail(parts), sep)

RECURSIVE LStrip(_)
LStrip(s) ==
    IF s # <<>> /\ Head(s) \in Whitespace THEN LStrip(Tail(s)) ELSE s

RECURSIVE RStrip(_)
RStrip(s) ==
    IF s # <<>> /\ s[Len(s)] \in Whitespace THEN RStrip(SubSeq(s, 1, Len(s) - 1)) ELSE s

(* str.strip() *)
Strip(s) == RStrip(LStrip(s))

(* str.isdigit() *)
IsDigit(s) == s # <<>> /\ \A i \in DOMAIN s : s[i] \in Digits

DigitValue(c) ==
    CASE c = "0" -> 0 [] c = "1" -> 1 [] c = "2" -> 2 [] c = "3" -> 3 [] c = "4" -> 4
      [] c = "5" -> 5 [] c = "6" -> 6 [] c = "7" -> 7 [] c = "8" -> 8 [] c = "9" -> 9

(* int(s) of a digit string *)
RECURSIVE ToInt(_)
ToInt(s) ==
    IF s = <<>> THEN 0
    ELSE 10 * ToInt(SubSeq(s, 1, Len(s) - 1)) + DigitValue(s[Len(s)])

(* x in list *)
InList(x, list) == \E i \in DOMAIN list : list[i] = x

----------------------------------------------------------------------------
(* Inputs the callers pass *)

T_empty == <<>>                              \* ""
T_a == <<"a">>                               \* "a"
T_b == <<"b">>                               \* "b"
T_ab == <<"a", ",", " ", "b">>               \* "a, b"
T_ba == <<"b", ",", " ", "a">>               \* "b, a"

N_A == <<"A">>                               \* an employee name
N_B == <<"B">>                               \* an employee name
N_a == <<"a">>                               \* an equipment name that is also a skill label
N_d == <<"d">>                               \* an equipment name that is no skill label

(* (employee_id, name, skill_set) arguments of add_employee *)
EmployeeArgs ==
    { <<1, N_A, T_empty>>, <<1, N_B, T_b>>, <<2, N_B, T_b>>, <<2, N_A, T_ab>> }

(* (equipment_id, name, required_skills) arguments of add_equipment *)
EquipmentArgs ==
    { <<1, N_a, T_a>>, <<1, N_d, T_empty>>, <<2, N_d, T_ba>>, <<2, N_d, T_empty>> }

(* a line of a data file: the fields joined by ", ", with its newline *)
Line(fields) == Join(fields, Sep) \o <<"\n">>

(* equipment_data.txt as the loader may find it: a repeated id, an id written
   with a leading zero, a row of four fields, a non-numeric id, padding *)
EquipmentFiles ==
    { [exists |-> FALSE, lines |-> <<>>],
      [exists |-> TRUE,
       lines |-> << Line(<<<<"1">>, N_a, T_a>>),
                    Line(<<<<"0", "1">>, N_d, T_b>>),
                    Line(<<<<"2">>, N_d, T_b, T_a>>),
                    Line(<<<<"x">>, N_a, T_a>>) >>],
      [exists |-> TRUE,
       lines |-> << <<" ">> \o Line(<<<<"2">>, N_a, T_a>>),
                    Line(<<<<"2">>, N_d, T_b>>) >>] }

(* employees_data.txt as the loader may find it: a repeated id, several skills,
   a row of two fields *)
EmployeeFiles ==
    { [exists |-> FALSE, lines |-> <<>>],
      [exists |-> TRUE,
       lines |-> << Line(<<<<"1">>, N_B, T_b>>),
                    Line(<<<<"1">>, N_A, T_a, T_b>>),
                    Line(<<<<"2">>, N_A, T_a, T_b>>),
                    Line(<<<<"2">>, N_B>>) >>],
      [exists |-> TRUE,
       lines |-> << Line(<<<<"2">>, N_B, T_b>>) >>] }

(* the SQL statement of a handler at which the store raises sqlite3.Error *)
CheckOutFaults == {"none", "select employees", "select equipment", "insert checkouts", "update equipment"}
ReturnFaults == {"none", "select equipment", "update equipment"}

----------------------------------------------------------------------------
(* The store: three tables behind one sqlite connection *)

Available == <<"A", "v", "a", "i", "l", "a", "b", "l", "e">>              \* 'Available'
CheckedOut == <<"C", "h", "e", "c", "k", "e", "d", " ", "O", "u", "t">>   \* 'Checked Out'

(* the connection's view of the tables *)
Store == [employees |-> employees, equipment |-> equipment, checkouts |-> checkouts]

(* create_tables: empty tables *)
EmptyStore == [employees |-> {}, equipment |-> {}, checkouts |-> {}]

(* as PrimaryKeyViolated, for a table created without PRIMARY KEY *)
PrimaryKeyUnchecked(table, id) == FALSE

(* id INTEGER PRIMARY KEY: an INSERT of an id the table holds raises IntegrityError *)
PrimaryKeyViolated(table, id) == \E r \in table : r.id = id

(* SELECT ... WHERE id = ? *)
SelectById(table, id) == {r \in table : r.id = id}

(* cursor.fetchone() of a non-empty result *)
FetchOne(rows) == CHOOSE r \in rows : TRUE

(* INSERT INTO employees (id, name, skill_set) *)
InsertEmployee(db, id, name, skill_set) ==
    [db EXCEPT !.employees = @ \cup {[id |-> id, name |-> name, skill_set |-> skill_set]}]

(* INSERT INTO equipment (id, name, required_skills); status takes its DEFAULT *)
InsertEquipment(db, id, name, required_skills) ==
    [db EXCEPT !.equipment = @ \cup {[id |-> id, name |-> name,
                                      required_skills |-> required_skills,
                                      status |-> Available]}]

(* the rowid sqlite gives an INTEGER PRIMARY KEY left out of the INSERT: largest + 1 *)
NextRowId(table) ==
    IF table = {} THEN 1
    ELSE (CHOOSE m \in {r.id : r \in table} : \A r \in table : r.id <= m) + 1

(* as InsertCheckout, with the two bound values in the wrong order *)
InsertCheckoutSwapped(db, employee_id, equipment_id) ==
    [db EXCEPT !.checkouts = @ \cup {[id |-> NextRowId(db.checkouts),
                                      employee_id |-> equipment_id,
                                      equipment_id |-> employee_id]}]

(* INSERT INTO checkouts (employee_id, equipment_id) *)
InsertCheckout(db, employee_id, equipment_id) ==
    [db EXCEPT !.checkouts = @ \cup {[id |-> NextRowId(db.checkouts),
                                      employee_id |-> employee_id,
                                      equipment_id |-> equipment_id]}]

(* as UpdateStatus, with the WHERE clause left out *)
UpdateStatusEveryRow(db, equipment_id, status) ==
    [db EXCEPT !.equipment = {[r EXCEPT !.status = status] : r \in @}]

(* UPDATE equipment SET status = ? WHERE id = ? *)
UpdateStatus(db, equipment_id, status) ==
    [db EXCEPT !.equipment =
        {IF r.id = equipment_id THEN [r EXCEPT !.status = status] ELSE r : r \in @}]

(* as Rollback, with the rollback left out: the with block commits what was written *)
RollbackNothing(begin, work) == work

(* conn.rollback(): back to the tables as the transaction found them *)
Rollback(begin, work) == begin

----------------------------------------------------------------------------
(* Database.add_employee / Database.add_equipment *)

(* a handler's return: the tables it commits, its message, and for
   "Database error: {e}" the statement whose error e is *)
Return(db, message) == [db |-> db, result |-> message, cause |-> "none"]

add_employee_run(db, employee_id, name, skill_set) ==
    IF PrimaryKeyViolated(db.employees, employee_id)
    THEN Return(db, "IntegrityError")
    ELSE Return(InsertEmployee(db, employee_id, name, skill_set), "inserted")

add_equipment_run(db, equipment_id, name, required_skills) ==
    IF PrimaryKeyViolated(db.equipment, equipment_id)
    THEN Return(db, "IntegrityError")
    ELSE Return(InsertEquipment(db, equipment_id, name, required_skills), "inserted")

----------------------------------------------------------------------------
(* Database.load_equipment_from_file / Database.load_employees_from_file *)

RECURSIVE load_equipment_lines(_, _)
load_equipment_lines(db, lines) ==
    IF lines = <<>> THEN db
    ELSE LET parts == Split(Strip(Head(lines)), Sep) IN
         IF Len(parts) = 3 /\ IsDigit(parts[1])
         THEN IF SelectById(db.equipment, ToInt(parts[1])) = {}
              THEN load_equipment_lines(
                       add_equipment_run(db, ToInt(parts[1]), parts[2], parts[3]).db,
                       Tail(lines))
              ELSE load_equipment_lines(db, Tail(lines))
         ELSE load_equipment_lines(db, Tail(lines))

load_equipment_from_file_run(db, file) ==
    IF file.exists
    THEN Return(load_equipment_lines(db, file.lines), "loaded")
    ELSE Return(db, "FileNotFoundError")

RECURSIVE load_employees_lines(_, _)
load_employees_lines(db, lines) ==
    IF lines = <<>> THEN db
    ELSE LET parts == Split(Strip(Head(lines)), Sep) IN
         IF Len(parts) >= 3 /\ IsDigit(parts[1])
         THEN IF SelectById(db.employees, ToInt(parts[1])) = {}
              THEN load_employees_lines(
                       add_employee_run(db, ToInt(parts[1]), parts[2],
                                        Join(SubSeq(parts, 3, Len(parts)), Sep)).db,
                       Tail(lines))
              ELSE load_employees_lines(db, Tail(lines))
         ELSE load_employees_lines(db, Tail(lines))

load_employees_from_file_run(db, file) ==
    IF file.exists
    THEN Return(load_employees_lines(db, file.lines), "loaded")
    ELSE Return(db, "FileNotFoundError")

----------------------------------------------------------------------------
(* Database.check_out_equipment / Database.return_equipment *)

MsgEmployeeNotFound == "Employee ID not found."
MsgEquipmentNotFound == "Equipment ID not found."
MsgUnauthorized == "Error: does not have the required skills"
MsgAlreadyCheckedOut == "Equipment is already checked out."
MsgCheckedOut == "successfully checked out"
MsgDatabaseError == "Database error"
MsgReturned == "Equipment returned successfully."
MsgNotCheckedOut == "This equipment was not checked out."

(* as AnySkill, with all() for any() *)
AllSkills(employee_skills, required_skills) ==
    \A i \in DOMAIN required_skills : InList(required_skills[i], employee_skills)

(* any(skill in employee_skills for skill in required_skills) *)
AnySkill(employee_skills, required_skills) ==
    \E i \in DOMAIN required_skills : InList(required_skills[i], employee_skills)

(* the except branch: roll the transaction back and report the error *)
DatabaseError(begin, work, fault) ==
    [db |-> Rollback(begin, work), result |-> MsgDatabaseError, cause |-> fault]

(* as check_out_writes, with the UPDATE made conditional on the stored status
   (WHERE id = ? AND status = 'Available') and the call refused when it
   changes no row *)
check_out_writes_if_available(db, employee_id, equipment_id, fault) ==
    IF fault = "insert checkouts" THEN DatabaseError(db, db, fault)
    ELSE LET inserted == InsertCheckout(db, employee_id, equipment_id) IN
         IF fault = "update equipment" THEN DatabaseError(db, inserted, fault)
         ELSE IF \E r \in db.equipment : r.id = equipment_id /\ r.status = CheckedOut
              THEN Return(Rollback(db, inserted), MsgAlreadyCheckedOut)
              ELSE Return(UpdateStatus(inserted, equipment_id, CheckedOut), MsgCheckedOut)

(* the two writes of a checkout, the second of which may raise *)
check_out_writes(db, employee_id, equipment_id, fault) ==
    IF fault = "insert checkouts" THEN DatabaseError(db, db, fault)
    ELSE LET inserted == InsertCheckout(db, employee_id, equipment_id) IN
         IF fault = "update equipment" THEN DatabaseError(db, inserted, fault)
         ELSE Return(UpdateStatus(inserted, equipment_id, CheckedOut), MsgCheckedOut)

(* as check_out_equipment_row, with the INSERT moved before the status guard *)
check_out_equipment_row_log_first(db, employee_data, employee_id, equipment_id, fault) ==
    LET employee_skills == Split(employee_data.skill_set, Sep) IN
    IF fault = "select equipment" THEN DatabaseError(db, db, fault)
    ELSE LET rows == SelectById(db.equipment, equipment_id) IN
         IF rows = {} THEN Return(db, MsgEquipmentNotFound)
         ELSE LET equipment_data == FetchOne(rows)
                  required_skills == Split(equipment_data.required_skills, Sep)
                  inserted == InsertCheckout(db, employee_id, equipment_id)
              IN IF ~AnySkill(employee_skills, required_skills)
                 THEN Return(db, MsgUnauthorized)
                 ELSE IF fault = "insert checkouts" THEN DatabaseError(db, db, fault)
                 ELSE IF equipment_data.status = CheckedOut
                 THEN Return(inserted, MsgAlreadyCheckedOut)
                 ELSE IF fault = "update equipment" THEN DatabaseError(db, inserted, fault)
                 ELSE Return(UpdateStatus(inserted, equipment_id, CheckedOut), MsgCheckedOut)

(* as check_out_equipment_row, with the status guard left out *)
check_out_equipment_row_any_status(db, employee_data, employee_id, equipment_id, fault) ==
    LET employee_skills == Split(employee_data.skill_set, Sep) IN
    IF fault = "select equipment" THEN DatabaseError(db, db, fault)
    ELSE LET rows == SelectById(db.equipment, equipment_id) IN
         IF rows = {} THEN Return(db, MsgEquipmentNotFound)
         ELSE LET equipment_data == FetchOne(rows)
                  required_skills == Split(equipment_data.required_skills, Sep)
              IN IF ~AnySkill(employee_skills, required_skills)
                 THEN Return(db, MsgUnauthorized)
                 ELSE check_out_writes(db, employee_id, equipment_id, fault)

(* the guards on the equipment row once the employee row is read *)
check_out_equipment_row(db, employee_data, employee_id, equipment_id, fault) ==
    LET employee_skills == Split(employee_data.skill_set, Sep) IN
    IF fault = "select equipment" THEN DatabaseError(db, db, fault)
    ELSE LET rows == SelectById(db.equipment, equipment_id) IN
         IF rows = {} THEN Return(db, MsgEquipmentNotFound)
         ELSE LET equipment_data == FetchOne(rows)
                  required_skills == Split(equipment_data.required_skills, Sep)
              IN IF ~AnySkill(employee_skills, required_skills)
                 THEN Return(db, MsgUnauthorized)
                 ELSE IF equipment_data.status = CheckedOut
                 THEN Return(db, MsgAlreadyCheckedOut)
                 ELSE check_out_writes(db, employee_id, equipment_id, fault)

(* check_out_equipment on tables db: the tables it commits and the message it returns *)
check_out_equipment_run(db, employee_id, equipment_id, fault) ==
    IF fault = "select employees" THEN DatabaseError(db, db, fault)
    ELSE LET rows == SelectById(db.employees, employee_id) IN
         IF rows = {} THEN Return(db, MsgEmployeeNotFound)
         ELSE check_out_equipment_row(db, FetchOne(rows), employee_id, equipment_id, fault)

(* as return_equipment_run, testing the status against 'CheckedOut', a text
   no row holds *)
return_equipment_wrong_text(db, equipment_id, fault) ==
    IF fault = "select equipment" THEN DatabaseError(db, db, fault)
    ELSE LET rows == SelectById(db.equipment, equipment_id) IN
         IF rows = {} THEN Return(db, MsgEquipmentNotFound)
         ELSE IF FetchOne(rows).status = <<"C", "h", "e", "c", "k", "e", "d", "O", "u", "t">>
              THEN IF fault = "update equipment" THEN DatabaseError(db, db, fault)
                   ELSE Return(UpdateStatus(db, equipment_id, Available), MsgReturned)
              ELSE Return(db, MsgNotCheckedOut)

(* as return_equipment_run, with the status test left out *)
return_equipment_any_status(db, equipment_id, fault) ==
    IF fault = "select equipment" THEN DatabaseError(db, db, fault)
    ELSE LET rows == SelectById(db.equipment, equipment_id) IN
         IF rows = {} THEN Return(db, MsgEquipmentNotFound)
         ELSE IF fault = "update equipment" THEN DatabaseError(db, db, fault)
              ELSE Return(UpdateStatus(db, equipment_id, Available), MsgReturned)

(* as return_equipment_run, also deleting the item's checkout rows *)
return_equipment_deleting(db, equipment_id, fault) ==
    IF fault = "select equipment" THEN DatabaseError(db, db, fault)
    ELSE LET rows == SelectById(db.equipment, equipment_id) IN
         IF rows = {} THEN Return(db, MsgEquipmentNotFound)
         ELSE IF FetchOne(rows).status = CheckedOut
              THEN IF fault = "update equipment" THEN DatabaseError(db, db, fault)
                   ELSE Return([UpdateStatus(db, equipment_id, Available)
                                   EXCEPT !.checkouts =
                                       {c \in @ : c.equipment_id # equipment_id}],
                               MsgReturned)
              ELSE Return(db, MsgNotCheckedOut)

(* return_equipment on tables db *)
return_equipment_run(db, equipment_id, fault) ==
    IF fault = "select equipment" THEN DatabaseError(db, db, fault)
    ELSE LET rows == SelectById(db.equipment, equipment_id) IN
         IF rows = {} THEN Return(db, MsgEquipmentNotFound)
         ELSE IF FetchOne(rows).status = CheckedOut
              THEN IF fault = "update equipment" THEN DatabaseError(db, db, fault)
                   ELSE Return(UpdateStatus(db, equipment_id, Available), MsgReturned)
              ELSE Return(db, MsgNotCheckedOut)

----------------------------------------------------------------------------
(* ReportGeneration.generate_report *)

(* as report_data, with the WHERE clause left out *)
report_data_any_status(db) ==
    { <<e.name, q.name>> :
        <<c, e, q>> \in { t \in db.checkouts \X db.employees \X db.equipment :
                            /\ t[1].employee_id = t[2].id
                            /\ t[1].equipment_id = t[3].id } }

(* SELECT DISTINCT employees.name, equipment.name FROM checkouts JOIN employees
   JOIN equipment WHERE equipment.status = 'Checked Out' *)
report_data(db) ==
    { <<e.name, q.name>> :
        <<c, e, q>> \in { t \in db.checkouts \X db.employees \X db.equipment :
                            /\ t[1].employee_id = t[2].id
                            /\ t[1].equipment_id = t[3].id
                            /\ t[3].status = CheckedOut } }

----------------------------------------------------------------------------
(* The command-line layer: Employee, NotificationSystem and the menu loop *)

MsgInvalidInput == "Invalid input. Please enter numeric IDs."
MsgInvalidEmployee == "Invalid Employee ID."
MsgInvalidEquipment == "Invalid Equipment ID."
MsgNoRequiredSkills == "Error: does not have the required skills to check out"
MsgMustBeReturned == "This equipment is already checked out and must be returned"
MsgListed == "listed"

(* what the user types at an id prompt *)
TypedIds == { <<"1">>, <<" ", "2">>, <<"x">> }

(* the statement at which the store raises sqlite3.Error during a menu option *)
MenuFaults == {"none", "update equipment"}

(* the supervisors that can be subscribed, by name *)
ObserverNames == { <<"S">> }

(* the messages send_alert is called with *)
AlertMessages == { MsgUnauthorized }

(* int(text) does not raise ValueError: digits, surrounding whitespace allowed *)
IsInt(text) == IsDigit(Strip(text))

(* int(text) of a text it accepts *)
int(text) == ToInt(Strip(text))

(* Employee.check_out_equipment: the equipment name is looked up in the
   employee's skill list, then the status is read, then the store is called *)
Employee_check_out_equipment(db, user_id, skill_set, equipment_id, fault) ==
    LET rows == SelectById(db.equipment, equipment_id) IN
    IF rows = {} THEN Return(db, MsgInvalidEquipment)
    ELSE LET equipment_name == FetchOne(rows).name IN
         IF ~InList(equipment_name, skill_set) THEN Return(db, MsgNoRequiredSkills)
         ELSE IF FetchOne(rows).status = CheckedOut THEN Return(db, MsgMustBeReturned)
         ELSE check_out_equipment_run(db, user_id, equipment_id, fault)

(* menu option 1 on tables db: what is printed and the tables it leaves *)
menu_1_run(db, emp_text, equip_text, fault) ==
    IF ~IsInt(emp_text) \/ ~IsInt(equip_text) THEN Return(db, MsgInvalidInput)
    ELSE LET emp_id == int(emp_text)
             equip_id == int(equip_text)
             rows == SelectById(db.employees, emp_id)
         IN IF rows = {} THEN Return(db, MsgInvalidEmployee)
            ELSE Employee_check_out_equipment(db, emp_id,
                     Split(FetchOne(rows).skill_set, Sep), equip_id, fault)

(* menu option 2 on tables db *)
menu_2_run(db, equip_text, fault) ==
    IF ~IsInt(equip_text) THEN Return(db, MsgInvalidInput)
    ELSE return_equipment_run(db, int(equip_text), fault)

(* SELECT * FROM employees / equipment: a row's values in the order
   create_tables declares the columns *)
EmployeesRow(r) == <<r.id, r.name, r.skill_set>>
EquipmentRow(r) == <<r.id, r.name, r.required_skills, r.status>>

(* menu option 4, the employee lines: emp[0], emp[1], emp[2] of each row
   (Python counts from 0, the tuples here from 1) *)
list_employees(db) ==
    { [ID |-> emp[1], Name |-> emp[2], Skills |-> emp[3]] :
        emp \in { EmployeesRow(r) : r \in db.employees } }

(* menu option 4, the equipment lines: equip[0], equip[1], equip[2] of each row *)
list_equipment(db) ==
    { [ID |-> equip[1], Name |-> equip[2], Status |-> equip[3]] :
        equip \in { EquipmentRow(r) : r \in db.equipment } }

----------------------------------------------------------------------------
(* State machine *)

(* a session that is making no call *)
IdleSession ==
    [pc |-> "idle", employee_id |-> 0, equipment_id |-> 0,
     employee_data |-> {}, equipment_data |-> {}, result |-> "none", cause |-> "none"]

(* Database() on a fresh database file: create_tables leaves three empty
   tables; the two loads __init__ then runs are the load actions below, which
   callers may also run later *)
Init ==
    /\ employees = EmptyStore.employees
    /\ equipment = EmptyStore.equipment
    /\ checkouts = EmptyStore.checkouts
    /\ last = [op |-> "init", employee_id |-> 0, equipment_id |-> 0, result |-> "none",
               cause |-> "none", events |-> 0]
    /\ lifecycle = [q \in EquipmentIds |-> "none"]
    /\ holder = [q \in EquipmentIds |-> 0]
    /\ observers = <<>>
    /\ alerts = <<>>
    /\ session = [s \in Sessions |-> IdleSession]
    /\ lock = 0

Commit(db) ==
    /\ employees' = db.employees
    /\ equipment' = db.equipment
    /\ checkouts' = db.checkouts

(* a call outside NotificationSystem: it prints no alert line and subscribes nobody *)
NoAlert == alerts' = <<>> /\ UNCHANGED observers

(* a call made while no concurrent session is being followed *)
OneSession == UNCHANGED <<session, lock>>

add_employee(employee_id, name, skill_set) ==
    LET r == add_employee_run(Store, employee_id, name, skill_set) IN
    /\ Commit(r.db)
    /\ last' = [op |-> "add_employee", employee_id |-> employee_id, equipment_id |-> 0,
                result |-> r.result,
                cause |-> r.cause, events |-> Cardinality(checkouts)]
    /\ UNCHANGED <<lifecycle, holder>>
    /\ NoAlert /\ OneSession

add_equipment(equipment_id, name, required_skills) ==
    LET r == add_equipment_run(Store, equipment_id, name, required_skills) IN
    /\ Commit(r.db)
    /\ last' = [op |-> "add_equipment", employee_id |-> 0, equipment_id |-> equipment_id,
                result |-> r.result,
                cause |-> r.cause, events |-> Cardinality(checkouts)]
    /\ UNCHANGED <<lifecycle, holder>>
    /\ NoAlert /\ OneSession

load_equipment_from_file(file) ==
    LET r == load_equipment_from_file_run(Store, file) IN
    /\ Commit(r.db)
    /\ last' = [op |-> "load_equipment_from_file", employee_id |-> 0, equipment_id |-> 0,
                result |-> r.result,
                cause |-> r.cause, events |-> Cardinality(checkouts)]
    /\ UNCHANGED <<lifecycle, holder>>
    /\ NoAlert /\ OneSession

load_employees_from_file(file) ==
    LET r == load_employees_from_file_run(Store, file) IN
    /\ Commit(r.db)
    /\ last' = [op |-> "load_employees_from_file", employee_id |-> 0, equipment_id |-> 0,
                result |-> r.result,
                cause |-> r.cause, events |-> Cardinality(checkouts)]
    /\ UNCHANGED <<lifecycle, holder>>
    /\ NoAlert /\ OneSession

check_out_equipment(employee_id, equipment_id, fault) ==
    LET r == check_out_equipment_run(Store, employee_id, equipment_id, fault) IN
    /\ Cardinality(checkouts) < MaxCheckouts
    /\ Commit(r.db)
    /\ last' = [op |-> "check_out_equipment", employee_id |-> employee_id,
                equipment_id |-> equipment_id, result |-> r.result,
                cause |-> r.cause, events |-> Cardinality(checkouts)]
    /\ lifecycle' = IF r.result = MsgCheckedOut
                    THEN [lifecycle EXCEPT ![equipment_id] = "check_out_equipment"]
                    ELSE lifecycle
    /\ holder' = IF r.result = MsgCheckedOut
                 THEN [holder EXCEPT ![equipment_id] = employee_id]
                 ELSE holder
    /\ NoAlert /\ OneSession

return_equipment(equipment_id, fault) ==
    LET r == return_equipment_run(Store, equipment_id, fault) IN
    /\ Commit(r.db)
    /\ last' = [op |-> "return_equipment", employee_id |-> 0,
                equipment_id |-> equipment_id, result |-> r.result,
                cause |-> r.cause, events |-> Cardinality(checkouts)]
    /\ lifecycle' = IF r.result = MsgReturned
                    THEN [lifecycle EXCEPT ![equipment_id] = "return_equipment"]
                    ELSE lifecycle
    /\ UNCHANGED holder
    /\ NoAlert /\ OneSession

generate_report ==
    /\ last' = [op |-> "generate_report", employee_id |-> 0, equipment_id |-> 0,
                result |-> IF report_data(Store) = {} THEN "nothing" ELSE "listed",
                cause |-> "none", events |-> Cardinality(checkouts)]
    /\ UNCHANGED <<employees, equipment, checkouts, lifecycle, holder>>
    /\ NoAlert /\ OneSession

Next ==
    \/ \E a \in EmployeeArgs : add_employee(a[1], a[2], a[3])
    \/ \E a \in EquipmentArgs : add_equipment(a[1], a[2], a[3])
    \/ \E file \in EquipmentFiles : load_equipment_from_file(file)
    \/ \E file \in EmployeeFiles : load_employees_from_file(file)
    \/ \E e \in EmployeeIds, q \in EquipmentIds, f \in CheckOutFaults :
          check_out_equipment(e, q, f)
    \/ \E q \in EquipmentIds, f \in ReturnFaults : return_equipment(q, f)
    \/ generate_report

Spec == Init /\ [][Next]_vars

(* menu option 1: Check Out Equipment *)
menu_1(emp_text, equip_text, fault) ==
    LET r == menu_1_run(Store, emp_text, equip_text, fault)
        emp_id == IF IsInt(emp_text) THEN int(emp_text) ELSE 0
        equip_id == IF IsInt(equip_text) THEN int(equip_text) ELSE 0
    IN
    /\ Cardinality(checkouts) < MaxCheckouts
    /\ Commit(r.db)
    /\ last' = [op |-> "menu 1", employee_id |-> emp_id, equipment_id |-> equip_id,
                result |-> r.result,
                cause |-> r.cause, events |-> Cardinality(checkouts)]
    /\ lifecycle' = IF r.result = MsgCheckedOut
                    THEN [lifecycle EXCEPT ![equip_id] = "check_out_equipment"]
                    ELSE lifecycle
    /\ holder' = IF r.result = MsgCheckedOut
                 THEN [holder EXCEPT ![equip_id] = emp_id]
                 ELSE holder
    /\ NoAlert /\ OneSession

(* menu option 2: Return Equipment *)
menu_2(equip_text, fault) ==
    LET r == menu_2_run(Store, equip_text, fault)
        equip_id == IF IsInt(equip_text) THEN int(equip_text) ELSE 0
    IN
    /\ Commit(r.db)
    /\ last' = [op |-> "menu 2", employee_id |-> 0, equipment_id |-> equip_id,
                result |-> r.result,
                cause |-> r.cause, events |-> Cardinality(checkouts)]
    /\ lifecycle' = IF r.result = MsgReturned
                    THEN [lifecycle EXCEPT ![equip_id] = "return_equipment"]
                    ELSE lifecycle
    /\ UNCHANGED holder
    /\ NoAlert /\ OneSession

(* menu option 4: List Employees and Equipment, printing list_employees and
   list_equipment of the tables *)
menu_4 ==
    /\ last' = [op |-> "menu 4", employee_id |-> 0, equipment_id |-> 0,
                result |-> MsgListed,
                cause |-> "none", events |-> Cardinality(checkouts)]
    /\ UNCHANGED <<employees, equipment, checkouts, lifecycle, holder>>
    /\ NoAlert /\ OneSession

(* NotificationSystem.subscribe *)
subscribe(observer) ==
    /\ Len(observers) < MaxObservers
    /\ observers' = Append(observers, observer)
    /\ alerts' = <<>>
    /\ last' = [op |-> "subscribe", employee_id |-> 0, equipment_id |-> 0,
                result |-> "none",
                cause |-> "none", events |-> Cardinality(checkouts)]
    /\ UNCHANGED <<employees, equipment, checkouts, lifecycle, holder>>
    /\ OneSession

(* NotificationSystem.send_alert: one line per observer, in subscription order *)
send_alert(message) ==
    /\ alerts' = [i \in DOMAIN observers |-> [to |-> observers[i], message |-> message]]
    /\ last' = [op |-> "send_alert", employee_id |-> 0, equipment_id |-> 0,
                result |-> "none",
                cause |-> "none", events |-> Cardinality(checkouts)]
    /\ UNCHANGED <<employees, equipment, checkouts, lifecycle, holder, observers>>
    /\ OneSession

(* the program as its user drives it: a store the registrations populated,
   the menu's options, the store's check_out_equipment, NotificationSystem *)
NextCLI ==
    \/ \E a \in EmployeeArgs : add_employee(a[1], a[2], a[3])
    \/ \E a \in EquipmentArgs : add_equipment(a[1], a[2], a[3])
    \/ \E e \in EmployeeIds, q \in EquipmentIds : check_out_equipment(e, q, "none")
    \/ \E emp_text \in TypedIds, equip_text \in TypedIds, f \in MenuFaults :
          menu_1(emp_text, equip_text, f)
    \/ \E equip_text \in TypedIds, f \in MenuFaults : menu_2(equip_text, f)
    \/ generate_report
    \/ menu_4
    \/ \E observer \in ObserverNames : subscribe(observer)
    \/ \E message \in AlertMessages : send_alert(message)

SpecCLI == Init /\ [][NextCLI]_vars

----------------------------------------------------------------------------
(* Two sessions, each with its own connection to the database file, running
   Database.check_out_equipment statement by statement.  A SELECT reads the
   committed tables; the INSERT opens the session's transaction and takes the
   file's write lock; the end of the with block commits and releases it. *)

(* the tables the sessions start from: employees B (skill b) and A (skills
   a, b), item d requiring b or a, with or without item a requiring a *)
RegisteredStores ==
    { [employees |-> { [id |-> 1, name |-> N_B, skill_set |-> T_b],
                       [id |-> 2, name |-> N_A, skill_set |-> T_ab] },
       equipment |-> items,
       checkouts |-> {}] :
        items \in { { [id |-> 2, name |-> N_d, required_skills |-> T_ba, status |-> Available] },
                    { [id |-> 1, name |-> N_a, required_skills |-> T_a, status |-> Available],
                      [id |-> 2, name |-> N_d, required_skills |-> T_ba, status |-> Available] } } }

InitConc ==
    /\ \E db \in RegisteredStores :
          /\ employees = db.employees
          /\ equipment = db.equipment
          /\ checkouts = db.checkouts
    /\ last = [op |-> "add_employee", employee_id |-> 2, equipment_id |-> 0,
               result |-> "inserted", cause |-> "none", events |-> 0]
    /\ lifecycle = [q \in EquipmentIds |-> "none"]
    /\ holder = [q \in EquipmentIds |-> 0]
    /\ observers = <<>>
    /\ alerts = <<>>
    /\ session = [s \in Sessions |-> IdleSession]
    /\ lock = 0

(* the sessions in the middle of a call *)
Calling == { s \in Sessions : session[s].pc # "idle" }

(* session s ends its call with the message and leaves the with block *)
Done(s, message, cause) ==
    session' = [session EXCEPT ![s].pc = "done", ![s].result = message, ![s].cause = cause]

(* session s calls check_out_equipment(employee_id, equipment_id) *)
call_check_out_equipment(s, employee_id, equipment_id) ==
    /\ session[s].pc = "idle"
    /\ Cardinality(checkouts) + Cardinality(Calling) < MaxCheckouts
    /\ session' = [session EXCEPT ![s] =
                      [IdleSession EXCEPT !.pc = "select employees",
                                          !.employee_id = employee_id,
                                          !.equipment_id = equipment_id]]
    /\ UNCHANGED <<employees, equipment, checkouts, last, lifecycle, holder, lock>>
    /\ NoAlert

(* SELECT name, skill_set FROM employees WHERE id = ?, and the not-found return *)
select_employees(s) ==
    /\ session[s].pc = "select employees"
    /\ LET rows == SelectById(employees, session[s].employee_id) IN
       IF rows = {} THEN Done(s, MsgEmployeeNotFound, "none")
       ELSE session' = [session EXCEPT ![s].pc = "select equipment",
                                       ![s].employee_data = rows]
    /\ UNCHANGED <<employees, equipment, checkouts, last, lifecycle, holder, lock>>
    /\ NoAlert

(* SELECT name, required_skills, status FROM equipment WHERE id = ?, and the
   three guards on the row read *)
select_equipment(s) ==
    /\ session[s].pc = "select equipment"
    /\ LET rows == SelectById(equipment, session[s].equipment_id)
           employee_skills == Split(FetchOne(session[s].employee_data).skill_set, Sep)
       IN
       IF rows = {} THEN Done(s, MsgEquipmentNotFound, "none")
       ELSE IF ~AnySkill(employee_skills, Split(FetchOne(rows).required_skills, Sep))
       THEN session' = [session EXCEPT ![s].pc = "done", ![s].equipment_data = rows,
                                       ![s].result = MsgUnauthorized]
       ELSE IF FetchOne(rows).status = CheckedOut
       THEN session' = [session EXCEPT ![s].pc = "done", ![s].equipment_data = rows,
                                       ![s].result = MsgAlreadyCheckedOut]
       ELSE session' = [session EXCEPT ![s].pc = "insert checkouts",
                                       ![s].equipment_data = rows]
    /\ UNCHANGED <<employees, equipment, checkouts, last, lifecycle, holder, lock>>
    /\ NoAlert

(* INSERT INTO checkouts: the session's transaction begins and takes the write
   lock; the row stays in the transaction until the commit *)
insert_checkouts(s) ==
    /\ session[s].pc = "insert checkouts"
    /\ lock = 0
    /\ lock' = s
    /\ session' = [session EXCEPT ![s].pc = "update equipment"]
    /\ UNCHANGED <<employees, equipment, checkouts, last, lifecycle, holder>>
    /\ NoAlert

(* the INSERT while the other session holds the write lock past the busy
   timeout: sqlite3.OperationalError, caught by the except branch *)
database_is_locked(s) ==
    /\ session[s].pc = "insert checkouts"
    /\ lock \notin {0, s}
    /\ Done(s, MsgDatabaseError, "insert checkouts")
    /\ UNCHANGED <<employees, equipment, checkouts, last, lifecycle, holder, lock>>
    /\ NoAlert

(* UPDATE equipment SET status = 'Checked Out' WHERE id = ?, in the transaction *)
update_equipment(s) ==
    /\ session[s].pc = "update equipment"
    /\ lock = s
    /\ session' = [session EXCEPT ![s].pc = "commit"]
    /\ UNCHANGED <<employees, equipment, checkouts, last, lifecycle, holder, lock>>
    /\ NoAlert

(* the end of the with block: the transaction's two writes reach the file and
   the lock is released *)
commit_check_out(s) ==
    LET r == check_out_writes(Store, session[s].employee_id, session[s].equipment_id, "none") IN
    /\ session[s].pc = "commit"
    /\ lock = s
    /\ Commit(r.db)
    /\ lock' = 0
    /\ Done(s, r.result, r.cause)
    /\ lifecycle' = IF r.result = MsgCheckedOut
                    THEN [lifecycle EXCEPT ![session[s].equipment_id] = "check_out_equipment"]
                    ELSE lifecycle
    /\ holder' = IF r.result = MsgCheckedOut
                 THEN [holder EXCEPT ![session[s].equipment_id] = session[s].employee_id]
                 ELSE holder
    /\ UNCHANGED last
    /\ NoAlert

(* the call returns its message to the session's caller *)
return_result(s) ==
    /\ session[s].pc = "done"
    /\ last' = [op |-> "check_out_equipment", employee_id |-> session[s].employee_id,
                equipment_id |-> session[s].equipment_id, result |-> session[s].result,
                cause |-> session[s].cause, events |-> Cardinality(checkouts)]
    /\ session' = [session EXCEPT ![s] = IdleSession]
    /\ UNCHANGED <<employees, equipment, checkouts, lifecycle, holder, lock>>
    /\ NoAlert

NextConc ==
    \/ \E s \in Sessions, e \in EmployeeIds, q \in EquipmentIds :
          call_check_out_equipment(s, e, q)
    \/ \E s \in Sessions : select_employees(s)
    \/ \E s \in Sessions : select_equipment(s)
    \/ \E s \in Sessions : insert_checkouts(s)
    \/ \E s \in Sessions : database_is_locked(s)
    \/ \E s \in Sessions : update_equipment(s)
    \/ \E s \in Sessions : commit_check_out(s)
    \/ \E s \in Sessions : return_result(s)

SpecConc == InitConc /\ [][NextConc]_vars

----------------------------------------------------------------------------
(* Vocabulary of the properties *)

(* the skill labels callers use, and the lists of distinct labels *)
SkillLabels == {T_a, T_b}

LabelLists ==
    {<<>>} \cup {<<x>> : x \in SkillLabels}
           \cup {<<x, y>> : <<x, y>> \in {p \in SkillLabels \X SkillLabels : p[1] # p[2]}}

(* the skill set a stored text stands for: the labels whose ", "-joined list it is *)
SkillSet(text) ==
    LET list == CHOOSE l \in LabelLists : Join(l, Sep) = text
    IN {list[i] : i \in DOMAIN list}

Registered(table, id) == \E r \in table : r.id = id

Row(table, id) == CHOOSE r \in table : r.id = id

(* the tables as one value *)
Tables == <<employees, equipment, checkouts>>

(* this step is the call check_out_equipment(e, q) *)
CheckOutStep(e, q) ==
    /\ last'.op = "check_out_equipment"
    /\ last'.employee_id = e
    /\ last'.equipment_id = q

(* this step is the call return_equipment(q) *)
ReturnStep(q) ==
    /\ last'.op = "return_equipment"
    /\ last'.equipment_id = q

----------------------------------------------------------------------------
(* C1: for a registered employee with skill set S and a registered equipment
   item with non-empty required-skill set R, a check_out_equipment call on
   which the store raises no error succeeds if and only if S and R share a
   label and the item's status is Available. *)
C1_CheckOutIffSkillAndAvailable ==
    [][\A e \in EmployeeIds, q \in EquipmentIds :
        ( /\ CheckOutStep(e, q)
          /\ last'.result # MsgDatabaseError
          /\ Registered(employees, e)
          /\ Registered(equipment, q)
          /\ SkillSet(Row(equipment, q).required_skills) # {} )
        => ( last'.result = MsgCheckedOut
             <=> ( /\ SkillSet(Row(employees, e).skill_set)
                        \cap SkillSet(Row(equipment, q).required_skills) # {}
                   /\ Row(equipment, q).status = Available ) )]_vars

(* a checkout has succeeded for an employee who holds one, not all, of the
   item's required skills *)
C1_Witness ==
    /\ last.op = "check_out_equipment"
    /\ last.result = MsgCheckedOut
    /\ Registered(employees, last.employee_id)
    /\ Registered(equipment, last.equipment_id)
    /\ LET S == SkillSet(Row(employees, last.employee_id).skill_set)
           R == SkillSet(Row(equipment, last.equipment_id).required_skills)
       IN S \cap R # {} /\ ~(R \subseteq S)

----------------------------------------------------------------------------
(* C2: a registered equipment item's status is Checked Out if and only if the
   most recent successful checkout or return on it was a checkout; an item no
   checkout or return has succeeded on is Available. *)
C2_StatusIsLastLifecycleOp ==
    \A r \in equipment :
        /\ r.status \in {Available, CheckedOut}
        /\ r.status = CheckedOut <=> lifecycle[r.id] = "check_out_equipment"

(* one item is out again after a return, another was never touched *)
C2_Witness ==
    /\ last.op = "check_out_equipment"
    /\ last.result = MsgCheckedOut
    /\ \E r \in equipment : r.id = last.equipment_id /\ r.status = CheckedOut
    /\ \E r \in equipment : lifecycle[r.id] = "none" /\ r.status = Available
    /\ Cardinality({c \in checkouts : c.equipment_id = last.equipment_id}) >= 2

----------------------------------------------------------------------------
(* C3: a successful check_out_equipment(e, q) leaves q Checked Out and adds
   exactly one row to checkouts, and that row names e and q. *)
C3_SuccessfulCheckOutEffect ==
    [][\A e \in EmployeeIds, q \in EquipmentIds :
        (CheckOutStep(e, q) /\ last'.result = MsgCheckedOut)
        => /\ Registered(equipment', q)
           /\ Row(equipment', q).status = CheckedOut
           /\ checkouts \subseteq checkouts'
           /\ Cardinality(checkouts' \ checkouts) = 1
           /\ \A c \in checkouts' \ checkouts :
                 c.employee_id = e /\ c.equipment_id = q]_vars

(* a checkout has succeeded with employee id and equipment id different and
   rows already in the log *)
C3_Witness ==
    /\ last.op = "check_out_equipment"
    /\ last.result = MsgCheckedOut
    /\ last.employee_id # last.equipment_id
    /\ last.events >= 1
    /\ Cardinality(checkouts) = last.events + 1

----------------------------------------------------------------------------
(* C4 as stated: check_out_equipment on an item that is Checked Out returns
   the already-checked-out message for every employee id passed (store errors
   aside), and changes neither the log nor any status. *)
C4_AlwaysAlreadyCheckedOut ==
    [][\A e \in EmployeeIds, q \in EquipmentIds :
        ( /\ CheckOutStep(e, q)
          /\ last'.result # MsgDatabaseError
          /\ Registered(equipment, q)
          /\ Row(equipment, q).status = CheckedOut )
        => /\ last'.result = MsgAlreadyCheckedOut
           /\ checkouts' = checkouts
           /\ equipment' = equipment]_vars

(* C4 as amended: check_out_equipment on an item that is Checked Out never
   succeeds and changes neither the log nor any status; it returns the
   already-checked-out message whenever the employee id is registered and the
   employee holds a required skill, and the employee-not-found message when
   the employee id is not registered (store errors aside). *)
C4_CheckedOutItemIsRefused ==
    [][\A e \in EmployeeIds, q \in EquipmentIds :
        ( /\ CheckOutStep(e, q)
          /\ Registered(equipment, q)
          /\ Row(equipment, q).status = CheckedOut )
        => /\ last'.result # MsgCheckedOut
           /\ checkouts' = checkouts
           /\ equipment' = equipment
           /\ last'.result # MsgDatabaseError
              => /\ ~Registered(employees, e) => last'.result = MsgEmployeeNotFound
                 /\ ( /\ Registered(employees, e)
                      /\ SkillSet(Row(employees, e).skill_set)
                           \cap SkillSet(Row(equipment, q).required_skills) # {} )
                    => last'.result = MsgAlreadyCheckedOut]_vars

(* a second employee, holding a required skill, was refused an item that is out *)
C4_Witness ==
    /\ last.op = "check_out_equipment"
    /\ last.result = MsgAlreadyCheckedOut
    /\ Registered(equipment, last.equipment_id)
    /\ Row(equipment, last.equipment_id).status = CheckedOut
    /\ holder[last.equipment_id] # last.employee_id

----------------------------------------------------------------------------
(* C5: every (employee name, equipment name) pair of the checked-out report
   is the pair of an item that is Checked Out now and of the employee whose
   successful checkout put it in that state. *)
C5_ReportListsCurrentHolders ==
    last.op = "generate_report"
    => \A p \in report_data(Store) :
          \E q \in equipment, e \in employees :
             /\ q.name = p[2]
             /\ q.status = CheckedOut
             /\ e.id = holder[q.id]
             /\ e.name = p[1]

----------------------------------------------------------------------------
(* C6: an equipment item registered with an empty required-skill set is never
   successfully checked out. *)
C6_EmptyRequirementNeverCheckedOut ==
    \A r \in equipment :
        SkillSet(r.required_skills) = {} => lifecycle[r.id] = "none"

----------------------------------------------------------------------------
(* C7: return_equipment on a registered item that is Available changes no
   table and never reports a return; unless the store raises an error it
   returns the not-checked-out message. The tables being unchanged, a repeat
   of the call meets the same state and ends the same way. *)
C7_ReturnOfAvailableIsNoOp ==
    [][\A q \in EquipmentIds :
        ( /\ ReturnStep(q)
          /\ Registered(equipment, q)
          /\ Row(equipment, q).status = Available )
        => /\ Tables' = Tables
           /\ last'.result # MsgReturned
           /\ last'.result # MsgDatabaseError => last'.result = MsgNotCheckedOut]_vars

(* a return was refused for an item that had been checked out and returned *)
C7_Witness ==
    /\ last.op = "return_equipment"
    /\ last.result = MsgNotCheckedOut
    /\ Registered(equipment, last.equipment_id)
    /\ Row(equipment, last.equipment_id).status = Available
    /\ lifecycle[last.equipment_id] = "return_equipment"

----------------------------------------------------------------------------
(* C8: when return_equipment(q) directly follows a successful
   check_out_equipment(e, q) and the store raises no error, it succeeds, q is
   Available again, the return leaves the checkouts table as it found it, and
   the table holds exactly one row more than before the checkout: the newest
   row, naming e and q. *)
C8_CheckOutThenReturn ==
    [][\A e \in EmployeeIds, q \in EquipmentIds :
        ( /\ last.op = "check_out_equipment"
          /\ last.result = MsgCheckedOut
          /\ last.employee_id = e
          /\ last.equipment_id = q
          /\ ReturnStep(q)
          /\ last'.result # MsgDatabaseError )
        => /\ last'.result = MsgReturned
           /\ Row(equipment', q).status = Available
           /\ checkouts' = checkouts
           /\ Cardinality(checkouts') = last.events + 1
           /\ Cardinality({c \in checkouts' : c.id >= NextRowId(checkouts') - 1}) = 1
           /\ \A c \in checkouts' :
                 c.id >= NextRowId(checkouts') - 1
                 => c.employee_id = e /\ c.equipment_id = q]_vars

(* an item is back to Available after a return, its checkout row still logged *)
C8_Witness ==
    /\ last.op = "return_equipment"
    /\ last.result = MsgReturned
    /\ Row(equipment, last.equipment_id).status = Available
    /\ Cardinality(checkouts) = last.events
    /\ \E c \in checkouts :
          /\ c.equipment_id = last.equipment_id
          /\ c.employee_id = holder[last.equipment_id]
          /\ c.id = NextRowId(checkouts) - 1

----------------------------------------------------------------------------
(* C9: every check_out_equipment call commits either both writes (one new
   checkouts row and the item's status set to Checked Out, with the success
   message) or neither (checkouts and equipment as before, without the success
   message); a store error at the INSERT or at the UPDATE ends in the
   database-error message with neither write committed. *)
C9_CheckOutWritesAreAtomic ==
    [][\A e \in EmployeeIds, q \in EquipmentIds :
        CheckOutStep(e, q)
        => /\ \/ /\ last'.result = MsgCheckedOut
                 /\ checkouts \subseteq checkouts'
                 /\ Cardinality(checkouts' \ checkouts) = 1
                 /\ Row(equipment, q).status = Available
                 /\ Row(equipment', q).status = CheckedOut
              \/ /\ last'.result # MsgCheckedOut
                 /\ checkouts' = checkouts
                 /\ equipment' = equipment
           /\ last'.cause \in {"insert checkouts", "update equipment"}
              => /\ last'.result = MsgDatabaseError
                 /\ Tables' = Tables]_vars

(* the UPDATE of a checkout raised after its INSERT, and the log is as before *)
C9_Witness ==
    /\ last.op = "check_out_equipment"
    /\ last.result = MsgDatabaseError
    /\ last.cause = "update equipment"
    /\ Cardinality(checkouts) = last.events
    /\ Row(equipment, last.equipment_id).status = Available

----------------------------------------------------------------------------
(* C10: add_employee / add_equipment of an id its table holds ends in the
   IntegrityError branch and changes no table; the file loaders leave every
   row they find as it is; and after every step no two rows of employees, and
   no two rows of equipment, have the same id. *)
UniqueIds ==
    /\ \A r1, r2 \in employees : r1.id = r2.id => r1 = r2
    /\ \A r1, r2 \in equipment : r1.id = r2.id => r1 = r2

C10_DuplicateIdsRejected ==
    [][ /\ UniqueIds'
        /\ (last'.op = "add_employee" /\ Registered(employees, last'.employee_id))
           => (last'.result = "IntegrityError" /\ Tables' = Tables)
        /\ (last'.op = "add_equipment" /\ Registered(equipment, last'.equipment_id))
           => (last'.result = "IntegrityError" /\ Tables' = Tables)
        /\ last'.op \in {"load_equipment_from_file", "load_employees_from_file"}
           => (employees \subseteq employees' /\ equipment \subseteq equipment'
               /\ checkouts' = checkouts) ]_vars

(* a second registration of an id was refused while the item was checked out *)
C10_Witness ==
    /\ last.op = "add_equipment"
    /\ last.result = "IntegrityError"
    /\ Row(equipment, last.equipment_id).status = CheckedOut
    /\ Cardinality(employees) = 2

----------------------------------------------------------------------------
(* C11: every row of checkouts names an employee id that employees holds and
   an equipment id that equipment holds. *)
C11_CheckoutsReferenceRegisteredIds ==
    \A c \in checkouts :
        /\ Registered(employees, c.employee_id)
        /\ Registered(equipment, c.equipment_id)

(* the log holds rows of two employees and of two items *)
C11_Witness ==
    /\ Cardinality({c.employee_id : c \in checkouts}) = 2
    /\ Cardinality({c.equipment_id : c \in checkouts}) = 2

----------------------------------------------------------------------------
(* C12: generate_report finds nothing to list exactly when no equipment row
   has status Checked Out, and for every item that is Checked Out the report
   holds a pair with that item's name. *)
C12_ReportEmptyIffNothingOut ==
    last.op = "generate_report"
    => /\ last.result = "nothing" <=> ~\E r \in equipment : r.status = CheckedOut
       /\ report_data(Store) = {} <=> ~\E r \in equipment : r.status = CheckedOut
       /\ \A r \in equipment :
             r.status = CheckedOut => \E p \in report_data(Store) : p[2] = r.name

(* a report was generated with nothing out, after a checkout and its return *)
C12_Witness ==
    /\ last.op = "generate_report"
    /\ last.result = "nothing"
    /\ checkouts # {}
    /\ \E r \in equipment : lifecycle[r.id] = "return_equipment"

----------------------------------------------------------------------------
(* C13: check_out_equipment reports the first guard that fails, in this
   order (store errors aside): employee id not in employees, the
   employee-not-found message; else equipment id not in equipment, the
   equipment-not-found message; else the employee's skill set and the item's
   required-skill set share no label, the missing-skills message; else the
   item is Checked Out, the already-checked-out message. *)
C13_GuardOrder ==
    [][\A e \in EmployeeIds, q \in EquipmentIds :
        (CheckOutStep(e, q) /\ last'.result # MsgDatabaseError)
        => IF ~Registered(employees, e) THEN last'.result = MsgEmployeeNotFound
           ELSE IF ~Registered(equipment, q) THEN last'.result = MsgEquipmentNotFound
           ELSE IF SkillSet(Row(employees, e).skill_set)
                     \cap SkillSet(Row(equipment, q).required_skills) = {}
                THEN last'.result = MsgUnauthorized
           ELSE IF Row(equipment, q).status = CheckedOut
                THEN last'.result = MsgAlreadyCheckedOut
           ELSE last'.result = MsgCheckedOut]_vars

----------------------------------------------------------------------------
(* C14: a check_out_equipment call that returns the employee-not-found,
   equipment-not-found, missing-skills or already-checked-out message, and a
   return_equipment call that returns the equipment-not-found or
   not-checked-out message, leaves the three tables as it found them. *)
C14_FailedCallsChangeNothing ==
    [][ /\ ( /\ last'.op = "check_out_equipment"
             /\ last'.result \in {MsgEmployeeNotFound, MsgEquipmentNotFound,
                                  MsgUnauthorized, MsgAlreadyCheckedOut} )
           => Tables' = Tables
        /\ ( /\ last'.op = "return_equipment"
             /\ last'.result \in {MsgEquipmentNotFound, MsgNotCheckedOut} )
           => Tables' = Tables ]_vars

(* a checkout was refused as already checked out, the log holding one row *)
C14_Witness ==
    /\ last.op = "check_out_equipment"
    /\ last.result = MsgAlreadyCheckedOut
    /\ Cardinality(checkouts) = 1
    /\ last.events = 1

----------------------------------------------------------------------------
(* C15: a check_out_equipment or return_equipment call on item q leaves the
   employees table, every equipment row's id, name and required skills, the
   status of every item other than q and every row already in checkouts as
   they were; and a step that is not a successful checkout or return leaves
   the status of every equipment row as it was. *)
SameButStatus(r1, r2) ==
    /\ r1.id = r2.id
    /\ r1.name = r2.name
    /\ r1.required_skills = r2.required_skills

C15_OnlyTheNamedStatusChanges ==
    [][ /\ \A q \in EquipmentIds :
             (last'.op \in {"check_out_equipment", "return_equipment"}
                 /\ last'.equipment_id = q)
             => /\ employees' = employees
                /\ checkouts \subseteq checkouts'
                /\ Cardinality(equipment') = Cardinality(equipment)
                /\ \A r \in equipment :
                      \E r2 \in equipment' :
                         /\ SameButStatus(r, r2)
                         /\ r.id # q => r2.status = r.status
        /\ ~( \/ last'.op = "check_out_equipment" /\ last'.result = MsgCheckedOut
              \/ last'.op = "return_equipment" /\ last'.result = MsgReturned )
           => \A r \in equipment :
                 \E r2 \in equipment' : r2.id = r.id /\ r2.status = r.status ]_vars

(* an item was returned while the other item stayed checked out *)
C15_Witness ==
    /\ last.op = "return_equipment"
    /\ last.result = MsgReturned
    /\ Cardinality(employees) = 2
    /\ \E r \in equipment : r.id # last.equipment_id /\ r.status = CheckedOut
    /\ \E r \in equipment : r.id = last.equipment_id /\ r.status = Available

----------------------------------------------------------------------------
(* C17: in every reachable state every equipment row can still change status
   (no store error assumed): if it is Checked Out, return_equipment on it
   succeeds and makes it Available; if it is Available after a return, a
   checkout by its last holder succeeds again; and if it is Available, a
   checkout succeeds for some employee, one already registered or one
   registered next under an id not yet in use. *)
CanBeReturned(q) ==
    LET r == return_equipment_run(Store, q, "none") IN
    /\ r.result = MsgReturned
    /\ Row(r.db.equipment, q).status = Available

CanBeCheckedOutBy(db, e, q) ==
    LET r == check_out_equipment_run(db, e, q, "none") IN
    /\ r.result = MsgCheckedOut
    /\ Row(r.db.equipment, q).status = CheckedOut

CanBeCheckedOut(q) ==
    \/ \E e \in employees : CanBeCheckedOutBy(Store, e.id, q)
    \/ \E a \in EmployeeArgs :
          LET id == NextRowId(employees) IN
          CanBeCheckedOutBy(add_employee_run(Store, id, a[2], a[3]).db, id, q)

C17_NoTerminalStatus ==
    \A r \in equipment :
        /\ r.status = CheckedOut => CanBeReturned(r.id)
        /\ (r.status = Available /\ lifecycle[r.id] = "return_equipment")
           => CanBeCheckedOutBy(Store, holder[r.id], r.id)
        /\ r.status = Available => CanBeCheckedOut(r.id)

(* an item is Checked Out for the second time, after a checkout and a return *)
C17_Witness ==
    \E r \in equipment :
        /\ r.status = CheckedOut
        /\ last.op = "check_out_equipment"
        /\ last.result = MsgCheckedOut
        /\ last.equipment_id = r.id
        /\ Cardinality({c \in checkouts : c.equipment_id = r.id}) >= 2

----------------------------------------------------------------------------
(* this step is menu option 1 with ids that parse to e and q *)
MenuCheckOutStep(e, q) ==
    /\ last'.op = "menu 1"
    /\ last'.employee_id = e
    /\ last'.equipment_id = q
    /\ last'.events = Cardinality(checkouts)

(* C16: for every state of the tables and every numeric employee id and
   equipment id, menu option 1 ends in a successful checkout exactly when
   check_out_equipment with the same ids would, and leaves the tables that
   call would leave (unless the store raised an error during the option). *)
C16_MenuCheckOutIsCheckOut ==
    [][\A e \in EmployeeIds, q \in EquipmentIds :
          (MenuCheckOutStep(e, q) /\ last'.result # MsgDatabaseError)
          => LET r == check_out_equipment_run(Store, e, q, "none") IN
             /\ (last'.result = MsgCheckedOut) <=> (r.result = MsgCheckedOut)
             /\ Tables' = <<r.db.employees, r.db.equipment, r.db.checkouts>>]_vars

----------------------------------------------------------------------------
(* this step is a checkout attempt, through the store or through the menu,
   that was refused for want of a required skill *)
UnauthorizedStep ==
    /\ last'.events = Cardinality(checkouts)
    /\ \/ last'.op = "check_out_equipment" /\ last'.result = MsgUnauthorized
       \/ last'.op = "menu 1" /\ last'.result \in {MsgUnauthorized, MsgNoRequiredSkills}

(* C18: a checkout attempt that is refused as unauthorized prints, as part of
   the attempt, one alert for each subscribed observer. *)
C18_UnauthorizedAlertsObservers ==
    [][UnauthorizedStep
       => /\ Len(alerts') = Len(observers)
          /\ \A i \in DOMAIN observers : alerts'[i].to = observers[i]]_vars

----------------------------------------------------------------------------
(* C19: the listing of menu option 4 holds, for every equipment row, a line
   with the row's id whose Status is the row's stored status. *)
C19_ListingShowsStoredStatus ==
    last.op = "menu 4"
    => \A r \in equipment :
          \E line \in list_equipment(Store) : line.ID = r.id /\ line.Status = r.status

----------------------------------------------------------------------------
(* session s has read the item as Available and passed the skill guard *)
ReadAvailable(s) ==
    /\ session[s].equipment_data # {}
    /\ \A r \in session[s].equipment_data : r.status = Available
    /\ session[s].result # MsgUnauthorized

(* C20: when two sessions have run check_out_equipment on the same item, each
   having read it as Available (so both read before either wrote), and
   neither was turned away by the write lock, both calls report success and
   the log holds two checkouts of the item, which is Checked Out; no
   return_equipment has run between them. *)
C20_InterleavedCheckOutsBothSucceed ==
    \A s \in Sessions, t \in Sessions :
        ( /\ s # t
          /\ session[s].pc = "done" /\ session[t].pc = "done"
          /\ session[s].equipment_id = session[t].equipment_id
          /\ ReadAvailable(s) /\ ReadAvailable(t)
          /\ session[s].result # MsgDatabaseError
          /\ session[t].result # MsgDatabaseError )
        => /\ session[s].result = MsgCheckedOut
           /\ session[t].result = MsgCheckedOut
           /\ Cardinality({ c \in checkouts :
                               c.equipment_id = session[s].equipment_id }) >= 2
           /\ Row(equipment, session[s].equipment_id).status = CheckedOut

(* two sessions, for two employees, have both succeeded on item 2, and the log
   holds exactly their two checkouts of it *)
C20_Witness ==
    /\ session[1].pc = "done" /\ session[2].pc = "done"
    /\ session[1].equipment_id = 2 /\ session[2].equipment_id = 2
    /\ session[1].employee_id # session[2].employee_id
    /\ ReadAvailable(1) /\ ReadAvailable(2)
    /\ session[1].result = MsgCheckedOut /\ session[2].result = MsgCheckedOut
    /\ { c.employee_id : c \in { c \in checkouts : c.equipment_id = 2 } } = {1, 2}
    /\ Cardinality(checkouts) = 2

====
